---- MODULE Spec2Model ----
(***************************************************************************)
(* A model of timbess/Tail: the backward block reader of src/src/lib.rs    *)
(* (BackwardsReader) and the follow engine of src/src/main.rs              *)
(* (StatefulFile, follow, initial_print, print_from_cursor).               *)
(*                                                                         *)
(* Bytes are small naturals; NL stands for b'\n'.  Every specification     *)
(* below shares the variables; the variables a specification does not use  *)
(* keep their initial values.                                              *)
(***************************************************************************)
EXTENDS Integers, Sequences, FiniteSets, TLC

VARIABLES
    \* ---- BackwardsReader (lib.rs) ----
    file,            \* the bytes of the file behind fd
    num_of_lines,    \* BackwardsReader.num_of_lines
    pieces,          \* BackwardsReader.pieces: VecDeque<VecDeque<Vec<u8>>>
    total_newlines,  \* BackwardsReader.total_newlines
    first_read,      \* BackwardsReader.first_read
    last_offset,     \* BackwardsReader.last_offset
    line,            \* read_all's local accumulator `line`
    written,         \* what read_all handed to writer.write, one entry per call
    br_pc,           \* position inside read_all
    overflow_checks, \* build profile: TRUE when integer overflow panics
    \* ---- last-N buffer of initial_print (main.rs) ----
    rb_input,        \* the lines the scan has still to read
    last_n_lines,    \* initial_print's VecDeque, front first
    rb_num_lines,    \* initial_print's num_lines
    rb_pushed,       \* the lines pushed so far, in push order
    rb_out,          \* the lines printed by the drain loop
    rb_pc,           \* position inside initial_print
    \* ---- follow engine (main.rs) ----
    disk,            \* disk[f]: current bytes of watched file f
    sf,              \* sf[f]: the StatefulFile of f
    events,          \* notifications not yet read, oldest first
    prev_mod_type,   \* main's prev_mod_type
    fl_pc,           \* position of main / follow
    cur,             \* the notification follow is working on: wd, mask, the
                     \* local mod_type, and (bookkeeping) the writers'
                     \* budget seen when the notification was taken
    stdout,          \* what the process printed, in order
    wr               \* the writers' bookkeeping: budget (operations left),
                     \* truncated (files truncated so far), pending (bytes
                     \* the rotating writer has still to write), closed,
                     \* start and base (length of stdout and of the file when
                     \* the follow loop began), fresh (the rotated-in line)

vars == << file, num_of_lines, pieces, total_newlines, first_read, last_offset,
           line, written, br_pc, overflow_checks,
           rb_input, last_n_lines, rb_num_lines, rb_pushed, rb_out, rb_pc,
           disk, sf, events, prev_mod_type, fl_pc, cur, stdout, wr >>

br_vars == << file, num_of_lines, pieces, total_newlines, first_read,
              last_offset, line, written, br_pc, overflow_checks >>

rb_vars == << rb_input, last_n_lines, rb_num_lines, rb_pushed, rb_out, rb_pc >>

fl_vars == << disk, sf, events, prev_mod_type, fl_pc, cur, stdout, wr >>

(***************************************************************************)
(* Bytes and generic sequence helpers                                      *)
(***************************************************************************)

\* b'\n'
NL == 0

\* The bytes a modelled file may hold: the delimiter and two letters.
Byte == {NL, 1, 2}

\* BUFFER_SIZE of lib.rs (4096 there), scaled down so that files of a few
\* bytes span several blocks.
BUFFER_SIZE == 3

\* u64 arithmetic wraps modulo 2^64; the model keeps the wrap with a word
\* narrower than the source's (TLC's integers are 32 bits wide).
U64_MODULUS == 2 ^ 16

\* Longest file of the backward-reader specification.
MaxFileLen == 7

\* Largest target line count of the backward-reader specification.
MaxLines == 3

Last(s) == s[Len(s)]

Front(s) == SubSeq(s, 1, Len(s) - 1)

Min(a, b) == IF a < b THEN a ELSE b

RECURSIVE Reverse(_)
Reverse(s) == IF s = << >> THEN << >> ELSE Append(Reverse(Tail(s)), Head(s))

\* The last min(k, Len(s)) elements of s, in order.
LastK(s, k) == SubSeq(s, Len(s) - Min(k, Len(s)) + 1, Len(s))

RECURSIVE Flatten(_)
Flatten(ss) == IF ss = << >> THEN << >> ELSE Head(ss) \o Flatten(Tail(ss))

RECURSIVE SeqsUpTo(_, _)
SeqsUpTo(S, n) ==
    IF n = 0 THEN { << >> }
    ELSE LET shorter == SeqsUpTo(S, n - 1)
         IN  shorter \cup { Append(s, x) : s \in { t \in shorter : Len(t) = n - 1 }, x \in S }

\* slice::split(|b| *b == b'\n'): one fragment more than there are
\* delimiters, empty fragments kept.
RECURSIVE Split(_)
Split(s) ==
    IF s = << >> THEN << << >> >>
    ELSE LET r == Split(Tail(s))
         IN  IF Head(s) = NL THEN << << >> >> \o r
             ELSE << << Head(s) >> \o Head(r) >> \o Tail(r)

(***************************************************************************)
(* BackwardsReader (src/src/lib.rs)                                        *)
(***************************************************************************)

\* BackwardsReader::new: seek(SeekFrom::End(0)) gives the file's length.
BRNew(f, n, checks) ==
    /\ file = f
    /\ num_of_lines = n
    /\ pieces = << >>
    /\ total_newlines = 0
    /\ first_read = TRUE
    /\ last_offset = Len(f)
    /\ line = << >>
    /\ written = << >>
    /\ br_pc = "read"
    /\ overflow_checks = checks

\* (self.last_offset as u64) - BUFFER_SIZE in a build that wraps.
WrappedTarget == (last_offset - BUFFER_SIZE) % U64_MODULUS

\* fd.seek(SeekFrom::Start(off)): lseek takes a signed offset, so an
\* offset with the top bit set is refused.
SeekStartFails(off) == off >= U64_MODULUS \div 2

\* The first-read correction (lib.rs 53-57 and 69-73): a first block not
\* ending in the delimiter gets one pushed, and the counter is bumped.
NeedsDelimiter(buff) == first_read /\ Last(buff) # NL

\* The correction with the push of the delimiter left out.
CorrectedNoPush(buff) == buff

Corrected(buff) == IF NeedsDelimiter(buff) THEN Append(buff, NL) ELSE buff

\* The counter bumped by the number of fragments rather than of delimiters.
CountAfterOffByOne(buff) ==
    total_newlines + (IF NeedsDelimiter(buff) THEN 1 ELSE 0)
                   + Len(Split(Corrected(buff)))

\* total_newlines after a block is split and queued.
CountAfter(buff) ==
    total_newlines + (IF NeedsDelimiter(buff) THEN 1 ELSE 0)
                   + (Len(Split(Corrected(buff))) - 1)

\* A block queued behind the blocks read before it.
PushBack(q, block) == Append(q, block)

\* self.pieces.push_front(buff): the block read last lies earliest in the
\* file and goes to the front of the queue.
PushFront(q, block) == << block >> \o q

\* The stop test at the end of read().
ReadAgain(count) == count < num_of_lines

\* read(), the arithmetic overflowing in a build that checks it: the
\* subtraction panics.
ReadPanics ==
    /\ br_pc = "read"
    /\ last_offset < BUFFER_SIZE
    /\ overflow_checks
    /\ br_pc' = "panicked"
    /\ UNCHANGED << file, num_of_lines, pieces, total_newlines, first_read,
                    last_offset, line, written, overflow_checks >>

\* read(), the Err(_) arm: the backward seek failed, the remaining prefix
\* (if any) is read, and the scan stops.
ReadPrefix ==
    /\ br_pc = "read"
    /\ last_offset < BUFFER_SIZE
    /\ ~overflow_checks
    /\ SeekStartFails(WrappedTarget)
    /\ IF last_offset > 0
       THEN LET buff == SubSeq(file, 1, last_offset)
            IN  /\ total_newlines' = CountAfter(buff)
                /\ first_read' = IF NeedsDelimiter(buff) THEN FALSE ELSE first_read
                /\ pieces' = PushFront(pieces, Split(Corrected(buff)))
       ELSE UNCHANGED << total_newlines, first_read, pieces >>
    /\ br_pc' = "correct"
    /\ UNCHANGED << file, num_of_lines, last_offset, line, written, overflow_checks >>

\* read(), the Ok arm: one full block is read at last_offset - BUFFER_SIZE.
ReadBlock ==
    /\ br_pc = "read"
    /\ last_offset >= BUFFER_SIZE
    /\ LET new_offset == last_offset - BUFFER_SIZE
           buff == SubSeq(file, new_offset + 1, new_offset + BUFFER_SIZE)
       IN  /\ last_offset' = new_offset
           /\ total_newlines' = CountAfter(buff)
           /\ pieces' = PushFront(pieces, Split(Corrected(buff)))
           /\ first_read' = FALSE
           /\ br_pc' = IF ReadAgain(CountAfter(buff)) THEN "read" ELSE "correct"
    /\ UNCHANGED << file, num_of_lines, line, written, overflow_checks >>

\* read_all, lines 90-102: the overshoot correction, then the early return
\* on an empty queue.
Overshoot ==
    /\ br_pc = "correct"
    /\ IF total_newlines > num_of_lines
       THEN LET first_chunk == Head(pieces)
                pieces_to_discard == total_newlines - num_of_lines
            IN  IF pieces_to_discard > Len(first_chunk)
                THEN \* first_chunk.pop_front().unwrap() on an empty chunk
                     /\ br_pc' = "panicked"
                     /\ UNCHANGED << pieces, total_newlines >>
                ELSE /\ pieces' = << SubSeq(first_chunk, pieces_to_discard + 1,
                                            Len(first_chunk)) >> \o Tail(pieces)
                     /\ total_newlines' = total_newlines - pieces_to_discard
                     /\ br_pc' = "emit"
       ELSE /\ br_pc' = IF pieces = << >> THEN "done" ELSE "emit"
            /\ UNCHANGED << pieces, total_newlines >>
    /\ UNCHANGED << file, num_of_lines, first_read, last_offset, line, written,
                    overflow_checks >>

\* The writes of one multi-fragment block: every fragment but the last,
\* the first joined with the pending accumulator, each with a delimiter.
RECURSIVE BlockWrites(_, _)
BlockWrites(acc, chunks) ==
    IF chunks = << >> THEN << >>
    ELSE << acc \o Head(chunks) \o << NL >> >> \o BlockWrites(<< >>, Tail(chunks))

\* read_all, lines 105-118: one turn of the emission loop.
EmitPiece ==
    /\ br_pc = "emit"
    /\ pieces # << >>
    /\ LET piece == Head(pieces)
       IN  /\ pieces' = Tail(pieces)
           /\ IF Len(piece) = 1
              THEN /\ line' = line \o piece[1]
                   /\ UNCHANGED written
              ELSE IF Len(piece) > 1
              THEN /\ written' = written \o BlockWrites(line, Front(piece))
                   /\ line' = Last(piece)
              ELSE UNCHANGED << line, written >>
    /\ UNCHANGED << file, num_of_lines, total_newlines, first_read, last_offset,
                    br_pc, overflow_checks >>

\* read_all, lines 119-121: what is left in the accumulator is written as
\* it is.
EmitRest ==
    /\ br_pc = "emit"
    /\ pieces = << >>
    /\ written' = IF line # << >> THEN Append(written, line) ELSE written
    /\ br_pc' = "done"
    /\ UNCHANGED << file, num_of_lines, pieces, total_newlines, first_read,
                    last_offset, line, overflow_checks >>

(***************************************************************************)
(* initial_print (src/src/main.rs): the bounded last-N buffer              *)
(***************************************************************************)

\* Most lines one forward scan pushes.
MaxPushes == 4

\* Largest num_lines of the forward scan (main passes 10).
MaxNumLines == 3

\* The lines a scanned file may hold, as lines() yields them (no delimiter).
ScanLine == { << 1 >>, << 2 >>, << 1, 2 >> }

\* println!("{}", l): the line and a delimiter.
PrintLn(l) == l \o << NL >>

\* The loop body of initial_print, lines 237-240: push_front, then
\* pop_back once the length exceeds num_lines.
PushEvictNewest(q, l, n) ==
    LET pushed == << l >> \o q
    IN  IF Len(pushed) > n THEN Tail(pushed) ELSE pushed

PushEvict(q, l, n) ==
    LET pushed == << l >> \o q
    IN  IF Len(pushed) > n THEN Front(pushed) ELSE pushed

\* initial_print, one turn of the scan loop.
ScanStep ==
    /\ rb_pc = "scan"
    /\ rb_input # << >>
    /\ last_n_lines' = PushEvict(last_n_lines, Head(rb_input), rb_num_lines)
    /\ rb_pushed' = Append(rb_pushed, Head(rb_input))
    /\ rb_input' = Tail(rb_input)
    /\ UNCHANGED << rb_num_lines, rb_out, rb_pc >>

\* initial_print: lines() is exhausted, the drain loop starts.
ScanEnd ==
    /\ rb_pc = "scan"
    /\ rb_input = << >>
    /\ rb_pc' = "drain"
    /\ UNCHANGED << rb_input, last_n_lines, rb_num_lines, rb_pushed, rb_out >>

\* initial_print, one turn of the drain loop: println of pop_back.
DrainStep ==
    /\ rb_pc = "drain"
    /\ last_n_lines # << >>
    /\ rb_out' = Append(rb_out, PrintLn(Last(last_n_lines)))
    /\ last_n_lines' = Front(last_n_lines)
    /\ UNCHANGED << rb_input, rb_num_lines, rb_pushed, rb_pc >>

\* initial_print: the buffer is empty, the function returns.
DrainEnd ==
    /\ rb_pc = "drain"
    /\ last_n_lines = << >>
    /\ rb_pc' = "done"
    /\ UNCHANGED << rb_input, last_n_lines, rb_num_lines, rb_pushed, rb_out >>

(***************************************************************************)
(* What the backward reader is meant to write                              *)
(***************************************************************************)

EndsWithNL(f) == f # << >> /\ Last(f) = NL

\* The logical lines of a file, delimiters stripped; an unterminated last
\* line counts as a line.
LogicalLines(f) ==
    IF f = << >> THEN << >>
    ELSE IF Last(f) = NL THEN Front(Split(f)) ELSE Split(f)

RECURSIVE Terminated(_)
Terminated(ls) ==
    IF ls = << >> THEN << >> ELSE Head(ls) \o << NL >> \o Terminated(Tail(ls))

\* The last min(n, L) logical lines of f, each with its delimiter.
LastLines(f, n) ==
    LET ls == LogicalLines(f)
        k  == Min(n, Len(ls))
    IN  Terminated(SubSeq(ls, Len(ls) - k + 1, Len(ls)))

BRDone == br_pc = "done"

\* C1: for a delimiter-terminated file of L lines and a target N < L, a
\* completed read_all has written exactly the last N lines, and so never a
\* first line that is only the tail of a line begun in an unread block.
C1_LastNLinesWritten ==
    (BRDone /\ EndsWithNL(file) /\ num_of_lines < Len(LogicalLines(file)))
        => Flatten(written) = LastLines(file, num_of_lines)

\* C2: for a delimiter-terminated file of L lines and a target N >= L
\* (N = L included), a completed read_all has written all L lines.
C2_WholeFileWritten ==
    (BRDone /\ EndsWithNL(file) /\ num_of_lines >= Len(LogicalLines(file)))
        => Flatten(written) = Terminated(LogicalLines(file))

\* C3: for a file whose last byte is not the delimiter, a completed
\* read_all has written the last min(N, L) logical lines, the unterminated
\* last line counting once and written with a delimiter appended.
C3_UnterminatedLastLineCountedOnce ==
    (BRDone /\ file # << >> /\ ~EndsWithNL(file))
        => Flatten(written) = LastLines(file, num_of_lines)

\* C4: for a delimiter-terminated file whose length is a multiple of the
\* block size, or which is shorter than one block, a completed read_all
\* has written the last min(N, L) lines, for every target N.
C4_BoundaryFilesWritten ==
    (/\ BRDone
     /\ EndsWithNL(file)
     /\ (Len(file) % BUFFER_SIZE = 0 \/ Len(file) < BUFFER_SIZE))
        => Flatten(written) = LastLines(file, num_of_lines)


(***************************************************************************)
(* StatefulFile and the follow engine (src/src/main.rs)                    *)
(***************************************************************************)

\* num_lines of the initial print: main calls initial_print(&mut sf, 10).
INITIAL_LINES == 10

\* The watched files, in the order of the command line.
Watched == DOMAIN disk

\* StatefulFile::new: the size snapshot is taken, the cursor is Start(0).
NewStatefulFile(len) == [old_len |-> len, cursor |-> 0, pos |-> 0]

\* StatefulFile::modification_type: the current size against the snapshot.
ModificationType(new_len, old_len) ==
    IF new_len > old_len THEN "Added"
    ELSE IF new_len < old_len THEN "Removed"
    ELSE "NoChange"

\* The match of follow, lines 196-226: what is done before the read.
\* "return" leaves follow at once, "reset" is sf.reset_cursor().
FollowActionKeepsOnClose(mod_type, mask, prev) ==
    IF mod_type = "Added" THEN "keep"
    ELSE IF mask = "MODIFY" THEN "return"
    ELSE IF mod_type = "NoChange" /\ prev = "Removed" THEN "reset"
    ELSE "keep"

FollowActionResetsOnNoChange(mod_type, mask, prev) ==
    IF mod_type = "Added" THEN "keep"
    ELSE IF mask = "MODIFY" THEN "return"
    ELSE "reset"

\* follow returning early on every MODIFY event, growth included.
FollowActionReturnsOnModify(mod_type, mask, prev) ==
    IF mask = "MODIFY" THEN "return"
    ELSE IF mod_type = "Added" THEN "keep"
    ELSE IF mod_type = "Removed" THEN "reset"
    ELSE IF prev = "Removed" THEN "reset"
    ELSE "keep"

FollowAction(mod_type, mask, prev) ==
    IF mod_type = "Added" THEN "keep"
    ELSE IF mask = "MODIFY" THEN "return"
    ELSE IF mod_type = "Removed" THEN "reset"
    ELSE IF prev = "Removed" THEN "reset"
    ELSE "keep"

\* fd.by_ref().lines(): the lines from the handle's position to the end of
\* the file, the delimiter stripped; bytes after the last delimiter come
\* out as a last line.
LinesFrom(bytes, pos) ==
    IF pos >= Len(bytes) THEN << >>
    ELSE LogicalLines(SubSeq(bytes, pos + 1, Len(bytes)))

\* The handle's position after lines() has run to the end of the file.
PosAfterRead(bytes, pos) == IF pos >= Len(bytes) THEN pos ELSE Len(bytes)

LineOut(l) == [kind |-> "line", text |-> PrintLn(l)]

\* println!("Seek to offset: {}", offset) of seek_to_cursor.
SeekOut(offset) == [kind |-> "seek", text |-> << offset >>]

\* println!("Updating offset to: {}", offset) of update_cursor.
UpdateOut(offset) == [kind |-> "update", text |-> << offset >>]

LinesOut(ls) == [i \in 1 .. Len(ls) |-> LineOut(ls[i])]

\* The scan loop of initial_print over a whole sequence of lines.
RECURSIVE ScanAll(_, _, _)
ScanAll(q, ls, n) ==
    IF ls = << >> THEN q ELSE ScanAll(PushEvict(q, Head(ls), n), Tail(ls), n)

\* What initial_print prints for the lines it read: the drain by pop_back.
InitialPrintOut(ls, n) == LinesOut(Reverse(ScanAll(<< >>, ls, n)))

\* Whether the inotify watch of f is in place (add_watch comes right
\* before File::open in main's loop over the file names).
HasWatch(f) ==
    \/ fl_pc \notin {"start_open", "start_print", "start_cursor"}
    \/ f < cur.wd
    \/ f = cur.wd /\ fl_pc # "start_open"

\* The notification queue after a write-side operation on f.
Notify(f, mask) ==
    IF HasWatch(f) THEN Append(events, [wd |-> f, mask |-> mask]) ELSE events

\* main, lines 165-170: add_watch, File::open and StatefulFile::new.
StartOpen ==
    /\ fl_pc = "start_open"
    /\ sf' = [sf EXCEPT ![cur.wd] = NewStatefulFile(Len(disk[cur.wd]))]
    /\ fl_pc' = "start_print"
    /\ UNCHANGED << disk, events, prev_mod_type, cur, stdout, wr >>

\* main, line 171: initial_print reads the file to its end and prints the
\* last INITIAL_LINES lines.
StartPrint ==
    /\ fl_pc = "start_print"
    /\ LET f == cur.wd
       IN  /\ stdout' = stdout \o
                 InitialPrintOut(LinesFrom(disk[f], sf[f].pos), INITIAL_LINES)
           /\ sf' = [sf EXCEPT ![f].pos = PosAfterRead(disk[f], sf[f].pos)]
    /\ fl_pc' = "start_cursor"
    /\ UNCHANGED << disk, events, prev_mod_type, cur, wr >>

\* main, lines 172-173: update_cursor, then the next file name, or the
\* follow loop after the last one.
StartCursor ==
    /\ fl_pc = "start_cursor"
    /\ LET f == cur.wd
       IN  /\ sf' = [sf EXCEPT ![f].cursor = sf[f].pos]
           /\ stdout' = Append(stdout, UpdateOut(sf[f].pos))
           /\ IF f + 1 \in Watched
              THEN /\ cur' = [cur EXCEPT !.wd = f + 1]
                   /\ fl_pc' = "start_open"
              ELSE /\ cur' = cur
                   /\ fl_pc' = "wait"
    /\ UNCHANGED << disk, events, prev_mod_type, wr >>

\* main, lines 180-187: the next notification is taken and follow is
\* called on its StatefulFile.
TakeEvent ==
    /\ fl_pc = "wait"
    /\ events # << >>
    /\ cur' = [wd |-> Head(events).wd, mask |-> Head(events).mask,
               mod_type |-> "None", seen |-> wr.budget]
    /\ events' = Tail(events)
    /\ fl_pc' = "classify"
    /\ UNCHANGED << disk, sf, prev_mod_type, stdout, wr >>

\* follow, lines 195-226: modification_type and the match on it.
Classify ==
    /\ fl_pc = "classify"
    /\ LET f  == cur.wd
           mt == ModificationType(Len(disk[f]), sf[f].old_len)
           a  == FollowAction(mt, cur.mask, prev_mod_type)
       IN  /\ cur' = [cur EXCEPT !.mod_type = mt]
           /\ IF a = "return"
              THEN /\ prev_mod_type' = mt
                   /\ fl_pc' = "wait"
                   /\ sf' = sf
              ELSE /\ prev_mod_type' = prev_mod_type
                   /\ fl_pc' = "update_metadata"
                   /\ sf' = IF a = "reset" THEN [sf EXCEPT ![f].cursor = 0] ELSE sf
    /\ UNCHANGED << disk, events, stdout, wr >>

\* follow, line 227: sf.update_metadata().
UpdateMetadata ==
    /\ fl_pc = "update_metadata"
    /\ sf' = [sf EXCEPT ![cur.wd].old_len = Len(disk[cur.wd])]
    /\ fl_pc' = "seek"
    /\ UNCHANGED << disk, events, prev_mod_type, cur, stdout, wr >>

\* follow, line 228: sf.seek_to_cursor(), which prints the offset.
SeekToCursor ==
    /\ fl_pc = "seek"
    /\ sf' = [sf EXCEPT ![cur.wd].pos = sf[cur.wd].cursor]
    /\ stdout' = Append(stdout, SeekOut(sf[cur.wd].cursor))
    /\ fl_pc' = "print"
    /\ UNCHANGED << disk, events, prev_mod_type, cur, wr >>

\* follow, line 229: print_from_cursor.
PrintFromCursor ==
    /\ fl_pc = "print"
    /\ LET f == cur.wd
       IN  /\ stdout' = stdout \o LinesOut(LinesFrom(disk[f], sf[f].pos))
           /\ sf' = [sf EXCEPT ![f].pos = PosAfterRead(disk[f], sf[f].pos)]
    /\ fl_pc' = "update_cursor"
    /\ UNCHANGED << disk, events, prev_mod_type, cur, wr >>

\* follow, lines 230-231, and main, line 187: update_cursor, and the
\* returned mod_type becomes prev_mod_type.
UpdateCursor ==
    /\ fl_pc = "update_cursor"
    /\ sf' = [sf EXCEPT ![cur.wd].cursor = sf[cur.wd].pos]
    /\ stdout' = Append(stdout, UpdateOut(sf[cur.wd].pos))
    /\ prev_mod_type' = cur.mod_type
    /\ fl_pc' = "wait"
    /\ UNCHANGED << disk, events, cur, wr >>

(***************************************************************************)
(* The writers of the watched files and the notifications they cause       *)
(* (the watch mask of main, line 166, is CLOSE_WRITE | MODIFY)             *)
(***************************************************************************)

\* A write(2) appending chunk to f: IN_MODIFY.
DoAppend(f, chunk) ==
    /\ disk' = [disk EXCEPT ![f] = disk[f] \o chunk]
    /\ events' = Notify(f, "MODIFY")
    /\ UNCHANGED << sf, prev_mod_type, fl_pc, cur, stdout >>

\* A truncation of f to length 0: IN_MODIFY.
DoTruncate(f) ==
    /\ disk' = [disk EXCEPT ![f] = << >>]
    /\ events' = Notify(f, "MODIFY")
    /\ UNCHANGED << sf, prev_mod_type, fl_pc, cur, stdout >>

\* A handle opened for writing is closed: IN_CLOSE_WRITE.
DoClose(f) ==
    /\ events' = Notify(f, "CLOSE_WRITE")
    /\ UNCHANGED << disk, sf, prev_mod_type, fl_pc, cur, stdout >>

\* The writers' bookkeeping after one more operation.
Spent(w) == [w EXCEPT !.budget = w.budget - 1]

\* Writers free to do anything, while the budget lasts.
WriterAppend(f, chunk) ==
    /\ wr.budget > 0
    /\ DoAppend(f, chunk)
    /\ wr' = Spent(wr)

WriterTruncate(f) ==
    /\ wr.budget > 0
    /\ DoTruncate(f)
    /\ wr' = Spent([wr EXCEPT !.truncated = wr.truncated \cup {f}])

WriterClose(f) ==
    /\ wr.budget > 0
    /\ DoClose(f)
    /\ wr' = Spent(wr)

\* The rotating writer of file 1: truncate, then write wr.pending in one
\* or more writes, then close.
RotateTruncate ==
    /\ 1 \notin wr.truncated
    /\ DoTruncate(1)
    /\ wr' = Spent([wr EXCEPT !.truncated = {1}])

RotateWrite(k) ==
    /\ 1 \in wr.truncated
    /\ k \in 1 .. Len(wr.pending)
    /\ DoAppend(1, SubSeq(wr.pending, 1, k))
    /\ wr' = Spent([wr EXCEPT !.pending = SubSeq(wr.pending, k + 1, Len(wr.pending))])

RotateClose ==
    /\ 1 \in wr.truncated
    /\ wr.pending = << >>
    /\ ~wr.closed
    /\ DoClose(1)
    /\ wr' = Spent([wr EXCEPT !.closed = TRUE])

(***************************************************************************)
(* Idle values of the parts a specification does not use                   *)
(***************************************************************************)

BRIdle ==
    /\ file = << >> /\ num_of_lines = 0 /\ pieces = << >> /\ total_newlines = 0
    /\ first_read = TRUE /\ last_offset = 0 /\ line = << >> /\ written = << >>
    /\ br_pc = "idle" /\ overflow_checks = FALSE

RBIdle ==
    /\ rb_input = << >> /\ last_n_lines = << >> /\ rb_num_lines = 0
    /\ rb_pushed = << >> /\ rb_out = << >> /\ rb_pc = "idle"

FLIdle ==
    /\ disk = << >> /\ sf = << >> /\ events = << >> /\ prev_mod_type = "None"
    /\ fl_pc = "idle" /\ cur = << >> /\ stdout = << >> /\ wr = << >>

(***************************************************************************)
(* Specification of the backward reader: any file, any target, either      *)
(* build profile; examples/read_lines.rs is new followed by read_all.      *)
(***************************************************************************)

InitBR ==
    /\ \E f \in SeqsUpTo(Byte, MaxFileLen), n \in 0 .. MaxLines, c \in BOOLEAN :
          BRNew(f, n, c)
    /\ RBIdle
    /\ FLIdle

BROnly == UNCHANGED << rb_vars, fl_vars >>

NextBR ==
    \/ ReadPanics /\ BROnly
    \/ ReadPrefix /\ BROnly
    \/ ReadBlock /\ BROnly
    \/ Overshoot /\ BROnly
    \/ EmitPiece /\ BROnly
    \/ EmitRest /\ BROnly

SpecBR == InitBR /\ [][NextBR]_vars

(***************************************************************************)
(* The backward reader: termination, the counter, the queue, the           *)
(* overshoot and the emission                                              *)
(***************************************************************************)

\* C11: reaching the start of the file is a normal end of the scan: the
\* backward position last_offset - BUFFER_SIZE going below zero leads to
\* the prefix read and never ends read_all in a fatal error.
C11_StartOfFileNotFatal == br_pc # "panicked"

\* The delimiters the queued blocks stand for: fragments - 1 per block.
RECURSIVE QueuedDelimiters(_)
QueuedDelimiters(ps) ==
    IF ps = << >> THEN 0
    ELSE (Len(Head(ps)) - 1) + QueuedDelimiters(Tail(ps))

\* C15: after every read step and after the overshoot correction the
\* newline counter equals the sum over the queued blocks of
\* (fragments - 1), the synthetic delimiter being counted once.
C15_CounterMatchesQueue ==
    [][ (br_pc \in {"read", "correct"} /\ br_pc' \in {"read", "correct", "emit"})
          => total_newlines' = QueuedDelimiters(pieces') ]_vars

\* The fragments of one block with the delimiter put back between them.
RECURSIVE Join(_)
Join(block) ==
    IF block = << >> THEN << >>
    ELSE IF Len(block) = 1 THEN block[1]
    ELSE block[1] \o << NL >> \o Join(Tail(block))

\* The queue read front to back, nothing inserted between blocks.
Joined(ps) == Flatten([i \in 1 .. Len(ps) |-> Join(ps[i])])

\* The file with the synthetic delimiter at its end when it has no
\* trailing one.
FileAsRead == IF file # << >> /\ Last(file) # NL THEN Append(file, NL) ELSE file

\* The bytes from offset off to the end of the file.
SuffixFrom(off) == SubSeq(FileAsRead, off + 1, Len(FileAsRead))

\* A step of read() that queued a block.
QueuedABlock == br_pc = "read" /\ pieces' # pieces

\* C16 as stated: after every read step the queue, joined, is the file
\* from last_offset to its end, the final prefix read included.
C16_QueueIsSuffixFromLastOffset ==
    [][ QueuedABlock => Joined(pieces') = SuffixFrom(last_offset') ]_vars

\* C16: after every read step the queue, joined, is a contiguous suffix
\* of the file in forward order: from last_offset after a full block, and
\* from offset 0 after the final prefix read, which leaves last_offset as
\* it was.
C16_QueueIsContiguousSuffix ==
    [][ QueuedABlock =>
          Joined(pieces') = SuffixFrom(IF last_offset < BUFFER_SIZE
                                       THEN 0 ELSE last_offset') ]_vars

\* A prefix read has queued the head of a file longer than one block: the
\* queue holds the whole file while last_offset is still above zero.
C16_Witness ==
    /\ br_pc = "correct"
    /\ Len(pieces) >= 2
    /\ last_offset > 0
    /\ (Len(pieces) - 1) * BUFFER_SIZE + last_offset = Len(file)
    /\ Joined(pieces) = FileAsRead

\* C17: the overshoot correction never fails: the front block holds at
\* least counter - num_of_lines fragments, exactly those are dropped from
\* its front and from no other block, the counter is num_of_lines
\* afterwards, and an exhausted front block stays queued and adds nothing
\* to the output.
C17_OvershootDiscardsFromFront ==
    [][ /\ br_pc = "correct" => br_pc' # "panicked"
        /\ (br_pc = "correct" /\ total_newlines > num_of_lines) =>
              LET excess == total_newlines - num_of_lines
              IN  /\ excess <= Len(Head(pieces))
                  /\ total_newlines' = num_of_lines
                  /\ Len(pieces') = Len(pieces)
                  /\ Tail(pieces') = Tail(pieces)
                  /\ Head(pieces') = SubSeq(Head(pieces), excess + 1,
                                            Len(Head(pieces)))
        /\ (br_pc = "emit" /\ pieces # << >> /\ Head(pieces) = << >>) =>
              /\ written' = written
              /\ line' = line ]_vars

\* The correction has emptied the front block, which is still queued.
C17_Witness ==
    /\ br_pc = "emit"
    /\ total_newlines = num_of_lines
    /\ pieces # << >>
    /\ Head(pieces) = << >>

\* C18: every line written ends in the delimiter, the last one too: a
\* single-fragment block only extends the accumulator, a multi-fragment
\* block writes every fragment but its last with the delimiter and leaves
\* the last in the accumulator, and the accumulator is empty once the
\* queue is drained, so nothing unterminated is ever written.
C18_WrittenLinesTerminated ==
    [][ /\ \A i \in 1 .. Len(written') : EndsWithNL(written'[i])
        /\ (br_pc = "emit" /\ pieces # << >> /\ Len(Head(pieces)) = 1) =>
              /\ written' = written
              /\ line' = line \o Head(pieces)[1]
        /\ (br_pc = "emit" /\ pieces # << >> /\ Len(Head(pieces)) > 1) =>
              /\ Len(written') = Len(written) + Len(Head(pieces)) - 1
              /\ written'[Len(written) + 1] = line \o Head(pieces)[1] \o << NL >>
              /\ line' = Last(Head(pieces))
        /\ br_pc' = "done" => line' = << >> ]_vars

\* A line joined across two blocks has been written and the queue is
\* drained.
C18_Witness ==
    /\ br_pc = "done"
    /\ Len(written) >= 2
    /\ Len(file) > BUFFER_SIZE
    /\ ~EndsWithNL(file)
    /\ \E i \in 1 .. Len(written) : Len(written[i]) > BUFFER_SIZE

(***************************************************************************)
(* Specification of the forward scan: any sequence of lines, any capacity  *)
(***************************************************************************)

InitRB ==
    /\ \E ls \in SeqsUpTo(ScanLine, MaxPushes), n \in 0 .. MaxNumLines :
          /\ rb_input = ls
          /\ rb_num_lines = n
    /\ last_n_lines = << >>
    /\ rb_pushed = << >>
    /\ rb_out = << >>
    /\ rb_pc = "scan"
    /\ BRIdle
    /\ FLIdle

RBOnly == UNCHANGED << br_vars, fl_vars >>

NextRB ==
    \/ ScanStep /\ RBOnly
    \/ ScanEnd /\ RBOnly
    \/ DrainStep /\ RBOnly
    \/ DrainEnd /\ RBOnly

SpecRB == InitRB /\ [][NextRB]_vars

\* C10: the buffer never holds more than num_lines lines after a step;
\* during the scan it holds exactly the last min(N, pushed) lines pushed,
\* newest at the front (so a push on a full buffer evicted exactly the
\* oldest one); and the drain prints those lines in push order: the last N
\* of M > N pushes, all M of M <= N pushes.
C10_LastNBuffer ==
    /\ Len(last_n_lines) <= rb_num_lines
    /\ rb_pc = "scan" =>
          last_n_lines = Reverse(LastK(rb_pushed, rb_num_lines))
    /\ rb_pc = "done" =>
          /\ rb_input = << >>
          /\ rb_out = [i \in 1 .. Len(LastK(rb_pushed, rb_num_lines)) |->
                          PrintLn(LastK(rb_pushed, rb_num_lines)[i])]

\* More lines than the capacity were pushed, distinct ones, and the drain
\* has printed.
C10_Witness ==
    /\ rb_pc = "done"
    /\ rb_num_lines >= 2
    /\ Len(rb_pushed) > rb_num_lines
    /\ rb_out # << >>
    /\ rb_pushed[1] # rb_pushed[Len(rb_pushed)]

(***************************************************************************)
(* Specification of the follow engine: two watched files, writers that     *)
(* append, truncate and close at any moment, from process start            *)
(***************************************************************************)

\* Most write-side operations of one run.
MaxWrites == 3

\* The files named on the command line.
FollowedFiles == {1, 2}

\* What a file may hold when the process starts.
InitialContent == { << >>, << 1, NL >> }

\* What one write(2) may append.
AppendChunk == { << 1 >>, << 1, NL >> }

EngineStart(content, budget) ==
    /\ disk = content
    /\ sf = [f \in DOMAIN content |-> NewStatefulFile(0)]
    /\ events = << >>
    /\ prev_mod_type = "None"
    /\ fl_pc = "start_open"
    /\ cur = [wd |-> 1, mask |-> "NONE", mod_type |-> "None", seen |-> budget]
    /\ stdout = << >>
    /\ wr = [budget |-> budget, truncated |-> {}, pending |-> << >>,
             closed |-> FALSE, start |-> 0, base |-> 0, fresh |-> << >>]

InitFollow ==
    /\ \E content \in [FollowedFiles -> InitialContent] :
          EngineStart(content, MaxWrites)
    /\ BRIdle
    /\ RBIdle

FLOnly == UNCHANGED << br_vars, rb_vars >>

NextFollow ==
    \/ StartOpen /\ FLOnly
    \/ StartPrint /\ FLOnly
    \/ StartCursor /\ FLOnly
    \/ TakeEvent /\ FLOnly
    \/ Classify /\ FLOnly
    \/ UpdateMetadata /\ FLOnly
    \/ SeekToCursor /\ FLOnly
    \/ PrintFromCursor /\ FLOnly
    \/ UpdateCursor /\ FLOnly
    \/ (\E f \in Watched, chunk \in AppendChunk : WriterAppend(f, chunk)) /\ FLOnly
    \/ (\E f \in Watched : WriterTruncate(f)) /\ FLOnly
    \/ (\E f \in Watched : WriterClose(f)) /\ FLOnly

SpecFollow == InitFollow /\ [][NextFollow]_vars

\* No write-side operation has happened since follow was called.
QuietSinceTaken == cur.seen = wr.budget

\* C8: whenever seek_to_cursor is about to run, the persisted cursor is at
\* most the file's current size.  Stated for the calls of follow during
\* which no writer did anything, so that a truncation racing with the call
\* itself is left aside: the claim covers those calls too.
C8_CursorWithinFileAtSeek ==
    (fl_pc = "seek" /\ QuietSinceTaken)
        => sf[cur.wd].cursor <= Len(disk[cur.wd])

\* C7: the cursor of a file that was never truncated never moves back,
\* whatever happens to the other watched files.
C7_CursorIsolation ==
    [][\A f \in Watched :
          (f \notin wr.truncated /\ f \notin wr'.truncated)
             => sf'[f].cursor >= sf[f].cursor]_vars

(***************************************************************************)
(* Specifications of the follow loop on one file, from the state main is   *)
(* in when the loop begins and nothing was written during start-up: the    *)
(* snapshot, the cursor and the handle are at the end of the file.         *)
(***************************************************************************)

\* What start-up has printed for a file of this content.
StartupOut(content) ==
    InitialPrintOut(LinesFrom(content, 0), INITIAL_LINES)
        \o << UpdateOut(Len(content)) >>

LoopStart(content, budget, pending) ==
    /\ disk = [f \in {1} |-> content]
    /\ sf = [f \in {1} |-> [old_len |-> Len(content), cursor |-> Len(content),
                            pos |-> Len(content)]]
    /\ events = << >>
    /\ prev_mod_type = "None"
    /\ fl_pc = "wait"
    /\ cur = [wd |-> 1, mask |-> "NONE", mod_type |-> "None", seen |-> budget]
    /\ stdout = StartupOut(content)
    /\ wr = [budget |-> budget, truncated |-> {}, pending |-> pending,
             closed |-> FALSE, start |-> Len(StartupOut(content)),
             base |-> Len(content), fresh |-> pending]

\* The lines print_from_cursor has printed since the loop began.
FollowLines ==
    LET since == SubSeq(stdout, wr.start + 1, Len(stdout))
        ls    == SelectSeq(since, LAMBDA r : r.kind = "line")
    IN  [i \in 1 .. Len(ls) |-> ls[i].text]

\* The bytes written to file 1 since the loop began (no truncation).
Appended == SubSeq(disk[1], wr.base + 1, Len(disk[1]))

IsPrefix(s, t) == Len(s) <= Len(t) /\ s = SubSeq(t, 1, Len(s))

\* Every notification has been handled.
Quiescent == fl_pc = "wait" /\ events = << >>

\* ---- growth by whole lines ----

\* A file of whole lines, as the loop finds it.
WholeLinesContent == { << >>, << 1, NL >>, << 1, NL, 1, 1, NL >> }

\* What one write appends: one or two whole lines.
WholeLinesChunk == { << 2, NL >>, << NL >>, << 2, 2, NL, 2, NL >> }

InitGrow ==
    /\ \E content \in WholeLinesContent : LoopStart(content, MaxWrites, << >>)
    /\ BRIdle
    /\ RBIdle

NextGrow ==
    \/ TakeEvent /\ FLOnly
    \/ Classify /\ FLOnly
    \/ UpdateMetadata /\ FLOnly
    \/ SeekToCursor /\ FLOnly
    \/ PrintFromCursor /\ FLOnly
    \/ UpdateCursor /\ FLOnly
    \/ (\E chunk \in WholeLinesChunk : WriterAppend(1, chunk)) /\ FLOnly
    \/ WriterClose(1) /\ FLOnly

SpecGrow == InitGrow /\ [][NextGrow]_vars

\* The offset up to which print_from_cursor has read.
ReadUpTo == IF fl_pc = "update_cursor" THEN sf[1].pos ELSE sf[1].cursor

AnyChunk == { << 2 >>, << 2, NL >>, << NL >> }

InitAppend ==
    /\ \E content \in WholeLinesContent : LoopStart(content, MaxWrites, << >>)
    /\ BRIdle
    /\ RBIdle

NextAppend ==
    \/ TakeEvent /\ FLOnly
    \/ Classify /\ FLOnly
    \/ UpdateMetadata /\ FLOnly
    \/ SeekToCursor /\ FLOnly
    \/ PrintFromCursor /\ FLOnly
    \/ UpdateCursor /\ FLOnly
    \/ (\E chunk \in AnyChunk : WriterAppend(1, chunk)) /\ FLOnly
    \/ WriterClose(1) /\ FLOnly

SpecAppend == InitAppend /\ [][NextAppend]_vars

\* C9: what the follow reads have printed is a run of whole lines of the
\* file, in order: bytes not yet followed by a delimiter are not printed
\* and the cursor does not pass them, so the printed bytes are always the
\* appended bytes up to the cursor and the cursor rests after a delimiter.
C9_OnlyCompleteLines ==
    /\ IsPrefix(Flatten(FollowLines), Appended)
    /\ (fl_pc = "wait" /\ sf[1].cursor > wr.base)
          => disk[1][sf[1].cursor] = NL

\* ---- rotation ----

\* Longest pre-truncation content of the rotation scenario.
MaxOldLen == 5

\* The content before the truncation: whole lines of the letter 1.
OldContent ==
    { c \in SeqsUpTo({NL, 1}, MaxOldLen) : Len(c) >= 2 /\ Last(c) = NL /\ c[1] = 1 }

\* The line written after the truncation: letters 2 and a delimiter,
\* shorter than the old content.
FreshLine(n) == [i \in 1 .. n |-> IF i = n THEN NL ELSE 2]

InitRotate ==
    /\ \E content \in OldContent :
          \E n \in 1 .. Len(content) - 1 :
             LoopStart(content, n + 2, FreshLine(n))
    /\ BRIdle
    /\ RBIdle

NextRotate ==
    \/ TakeEvent /\ FLOnly
    \/ Classify /\ FLOnly
    \/ UpdateMetadata /\ FLOnly
    \/ SeekToCursor /\ FLOnly
    \/ PrintFromCursor /\ FLOnly
    \/ UpdateCursor /\ FLOnly
    \/ RotateTruncate /\ FLOnly
    \/ (\E k \in 1 .. MaxOldLen : RotateWrite(k)) /\ FLOnly
    \/ RotateClose /\ FLOnly

SpecRotate == InitRotate /\ [][NextRotate]_vars

InitRewrite ==
    /\ \E content \in OldContent :
          \E n \in 1 .. MaxOldLen + 1 :
             LoopStart(content, n + 2, FreshLine(n))
    /\ BRIdle
    /\ RBIdle

NextRewrite ==
    \/ TakeEvent /\ FLOnly
    \/ Classify /\ FLOnly
    \/ UpdateMetadata /\ FLOnly
    \/ SeekToCursor /\ FLOnly
    \/ PrintFromCursor /\ FLOnly
    \/ UpdateCursor /\ FLOnly
    \/ RotateTruncate /\ FLOnly
    \/ (\E k \in 1 .. MaxOldLen + 1 : RotateWrite(k)) /\ FLOnly
    \/ RotateClose /\ FLOnly

SpecRewrite == InitRewrite /\ [][NextRewrite]_vars

\* The read about to start is the first one of the follow loop.
FirstReadOfLoop == Len(stdout) = wr.start + 1

\* C12: once a notification has observed Removed, the next read of the
\* file starts at offset 0, whatever the kind of that notification: the
\* read of the same call, and the first read of the loop when the call
\* before it observed Removed, never start at the cursor kept from before
\* the truncation.
C12_ResetBeforeReadAfterRemoved ==
    /\ (fl_pc = "print" /\ cur.mod_type = "Removed") => sf[1].pos = 0
    /\ (fl_pc = "print" /\ prev_mod_type = "Removed" /\ FirstReadOfLoop)
          => sf[1].pos = 0

(***************************************************************************)
(* The follow loop over two files: the previous state and the snapshot     *)
(***************************************************************************)

\* C13: a notification observing NoChange resets the cursor only when the
\* notification before it for the same file observed Removed; a file
\* that never shrank was never observed Removed, so NoChange never
\* resets its cursor.
C13_NoChangeResetNeedsOwnRemoved ==
    [][ (/\ fl_pc = "classify"
         /\ cur'.mod_type = "NoChange"
         /\ sf'[cur.wd].cursor < sf[cur.wd].cursor)
          => cur.wd \in wr.truncated ]_vars

\* C14: every notification is handled to its end: when follow returns,
\* the size snapshot of the file is the size it read in that call.
C14_SnapshotFreshOnReturn ==
    [][ (fl_pc = "classify" /\ fl_pc' = "wait")
          => sf'[cur.wd].old_len = Len(disk[cur.wd]) ]_vars

(***************************************************************************)
(* Growth by whole lines under the scheduling of main: the loop of lines   *)
(* 178-191 blocks only in read_events_blocking, so a step of the engine    *)
(* that can be taken is taken; the writer may stop at any time.            *)
(***************************************************************************)

EngineStep ==
    \/ TakeEvent /\ FLOnly
    \/ Classify /\ FLOnly
    \/ UpdateMetadata /\ FLOnly
    \/ SeekToCursor /\ FLOnly
    \/ PrintFromCursor /\ FLOnly
    \/ UpdateCursor /\ FLOnly

\* One write fewer than in SpecGrow.
InitGrowFair ==
    /\ \E content \in WholeLinesContent :
          LoopStart(content, MaxWrites - 1, << >>)
    /\ BRIdle
    /\ RBIdle

SpecGrowFair == InitGrowFair /\ [][NextGrow]_vars /\ WF_vars(EngineStep)

\* The bytes the follow reads have printed, in order.
Printed == Flatten(FollowLines)

====
